---- MODULE Spec2Model ----
(***************************************************************************)
(* A state-machine model of the odds-ticker plugin's scroll / duration     *)
(* engine: OddsRenderer (src/odds_renderer.py) and the host-facing entry   *)
(* points of OddsTickerPlugin (src/manager.py).                            *)
(*                                                                         *)
(* Time is an integer count of clock units; cfg.ticks_per_second says how  *)
(* many units make a second.  Durations in seconds, which the code         *)
(* computes with floats, are exact rationals [n, d] here.                  *)
(***************************************************************************)
EXTENDS Integers, Sequences, FiniteSets, TLC

VARIABLES
    now,                 \* time.time(), in clock units
    cfg,                 \* the config dict the renderer was constructed with
    scroll_position,     \* OddsRenderer.scroll_position
    last_scroll_time,    \* OddsRenderer.last_scroll_time
    ticker_image,        \* OddsRenderer.ticker_image
    total_scroll_width,  \* OddsRenderer.total_scroll_width
    dynamic_duration,    \* OddsRenderer.dynamic_duration (rational, seconds)
    end_reached_logged,  \* OddsRenderer._end_reached_logged
    insufficient_time_warning_logged, \* OddsRenderer._insufficient_time_warning_logged
    display_start_time,  \* OddsRenderer._display_start_time
    last_op,             \* history: the entry point called last
    last_ret,            \* history: what that call was given, did and returned
    track,               \* history: qualifying ticks since the last reset call
    plugin,              \* the fields of the OddsTickerPlugin object
    scroll_helper,       \* the plugin's ScrollHelper (host library object)
    threads,             \* worker threads display() started and gave up on
    game_filter          \* the fields of a GameFilter object and the games
                         \* filter_games is called with

rvars == <<scroll_position, last_scroll_time, ticker_image, total_scroll_width,
           dynamic_duration, end_reached_logged,
           insufficient_time_warning_logged, display_start_time>>
hvars == <<last_op, last_ret, track>>
pvars == <<plugin, scroll_helper, threads, game_filter>>
vars == <<now, cfg, rvars, hvars, pvars>>

-----------------------------------------------------------------------------
(* Bounds of the model *)

\* the clock runs from T0 to T0 + MaxNow
MaxNow == 10
\* at most this many games are handed to create_ticker_image
MaxGames == 2

(* Program constants *)

\* gap_width = 24
GapWidth == 24
\* self.dynamic_duration = 60
DefaultDynamicDuration == 60

\* the clock value at construction (time.time() is far from 0)
T0 == 1000
\* "not set": None for a time
NoTime == 0 - 1

-----------------------------------------------------------------------------
(* Rationals n/d with d > 0, for durations in seconds *)

RECURSIVE GCD(_, _)
GCD(a, b) == IF b = 0 THEN a ELSE GCD(b, a % b)

Abs(x) == IF x < 0 THEN -x ELSE x

Rat(n, d) ==
    LET g == GCD(Abs(n), d)
    IN  IF g = 0 THEN [n |-> 0, d |-> 1] ELSE [n |-> n \div g, d |-> d \div g]

RInt(k) == [n |-> k, d |-> 1]
RLe(a, b) == a.n * b.d <= b.n * a.d
RLt(a, b) == a.n * b.d < b.n * a.d
RMin(a, b) == IF RLe(a, b) THEN a ELSE b
RMax(a, b) == IF RLe(b, a) THEN a ELSE b
RSub(a, b) == Rat(a.n * b.d - b.n * a.d, a.d * b.d)

-----------------------------------------------------------------------------
(* Images.  A strip carries the widths of the tiles pasted into it.        *)

None == [kind |-> "none", width |-> 0, height |-> 0, tiles |-> <<>>]

RECURSIVE SumSeq(_)
SumSeq(s) == IF s = <<>> THEN 0 ELSE Head(s) + SumSeq(Tail(s))

matrix_width == cfg.matrix_width
matrix_height == cfg.matrix_height

\* a variant whose placeholder is one column wider than the display
oversized_no_data_image ==
    [kind |-> "no_data", width |-> matrix_width + 1, height |-> matrix_height,
     tiles |-> <<>>]

\* _create_no_data_image: a display-sized placeholder
create_no_data_image ==
    [kind |-> "no_data", width |-> matrix_width, height |-> matrix_height,
     tiles |-> <<>>]

\* _create_error_image
create_error_image ==
    [kind |-> "error", width |-> matrix_width, height |-> matrix_height,
     tiles |-> <<>>]

\* a variant that leaves no gap after the last tile
ContentWidthGapsBetween(game_images) ==
    SumSeq(game_images) + GapWidth * (Len(game_images) - 1)

\* content_width = sum(img.width for img in game_images) + gap_width * len(game_images)
ContentWidth(game_images) == SumSeq(game_images) + GapWidth * Len(game_images)

\* total_width = display_width + content_width + display_width
TotalWidth(game_images) ==
    matrix_width + ContentWidth(game_images) + matrix_width

CompositeImage(game_images) ==
    [kind |-> "strip", width |-> TotalWidth(game_images),
     height |-> matrix_height, tiles |-> game_images]

-----------------------------------------------------------------------------
(* Configurations the renderer is constructed with (OddsRenderer.__init__) *)

\* pixel widths of the per-game tiles (_create_game_display)
TileWidths == {2}
\* the lists of games handed to create_ticker_image, each game by its tile width
RECURSIVE SeqsUpTo(_, _)
SeqsUpTo(S, k) ==
    IF k = 0 THEN {<<>>}
    ELSE LET shorter == SeqsUpTo(S, k - 1)
         IN  shorter \cup {Append(s, x) : s \in {t \in shorter : Len(t) = k - 1}, x \in S}
GameLists == SeqsUpTo(TileWidths, MaxGames)

\* clock units per second: the resolution of the modelled clock
Resolutions == {1, 20}
\* config 'scroll_speed' (pixels per qualifying tick)
ScrollSpeeds == {2, 16}
\* config 'scroll_delay', in clock units
ScrollDelays == {1}
\* config 'min_duration' / 'max_duration' (seconds)
DurationRanges == {<<1, 4>>, <<30, 300>>}
\* config 'scroll_pixels_per_second'
PixelsPerSecond == {RInt(18)}
\* config 'duration_buffer'
DurationBuffers == {Rat(1, 10)}
\* display_manager.matrix.width / height
MatrixWidths == {4}
MatrixHeights == {2}

\* config 'display_duration', used when dynamic duration is off
DisplayDurations == {30}

AllConfigs ==
    {[loop |-> l, scroll_speed |-> sp, scroll_delay |-> sd,
      ticks_per_second |-> tps, dynamic_duration_enabled |-> dde,
      min_duration |-> r[1], max_duration |-> r[2],
      scroll_pixels_per_second |-> pps, duration_buffer |-> buf,
      display_duration |-> dur, matrix_width |-> mw, matrix_height |-> mh] :
        l \in BOOLEAN, sp \in ScrollSpeeds, sd \in ScrollDelays,
        tps \in Resolutions, dde \in BOOLEAN, r \in DurationRanges,
        pps \in PixelsPerSecond, buf \in DurationBuffers,
        dur \in DisplayDurations, mw \in MatrixWidths, mh \in MatrixHeights}

\* The configurations explored.  With dynamic duration off the range is
\* never read, so one range is enough.  The fine clock (0.05 s units) goes with
\* the default speed of 2 px per tick and the default range; the coarse clock
\* (1 s units) with a fast scroll, so that the end of the strip, the end of
\* the dynamic duration and a stale session all fall inside the horizon.
Configs ==
    {c \in AllConfigs :
        /\ c.dynamic_duration_enabled
              \/ <<c.min_duration, c.max_duration>> = <<30, 300>>
        /\ c.ticks_per_second = 20 =>
              /\ c.scroll_speed = 2
              /\ c.dynamic_duration_enabled
              /\ <<c.min_duration, c.max_duration>> = <<30, 300>>
        /\ c.ticks_per_second = 1 => c.scroll_speed = 16}


-----------------------------------------------------------------------------
(* OddsRenderer._calculate_dynamic_duration: the value of dynamic_duration *)
(* after the call, given the content width just stored.                    *)

\* a variant that adds no buffer time
TotalTimeUnbuffered(width, pps, buffer) ==
    IF pps.n < 0 THEN Rat(-(width * pps.d), -pps.n)
    ELSE Rat(width * pps.d, pps.n)

\* total_time = scroll_time + scroll_time * duration_buffer, as a rational
TotalTime(width, pps, buffer) ==
    LET num == width * pps.d * (buffer.d + buffer.n)
        den == pps.n * buffer.d
    IN  IF den < 0 THEN Rat(-num, -den) ELSE Rat(num, den)

\* a variant whose except branch leaves dynamic_duration as it was
calculate_dynamic_duration_unguarded(width) ==
    IF ~cfg.dynamic_duration_enabled \/ width <= 0
    THEN dynamic_duration
    ELSE IF cfg.scroll_pixels_per_second.n = 0
    THEN dynamic_duration
    ELSE RMax(RInt(cfg.min_duration),
              RMin(RInt(cfg.max_duration),
                   TotalTime(width, cfg.scroll_pixels_per_second,
                             cfg.duration_buffer)))

calculate_dynamic_duration(width) ==
    IF ~cfg.dynamic_duration_enabled \/ width <= 0
    THEN dynamic_duration                       \* early return
    ELSE IF cfg.scroll_pixels_per_second.n = 0
    THEN RInt(cfg.min_duration)                 \* ZeroDivisionError, except branch
    ELSE RMax(RInt(cfg.min_duration),
              RMin(RInt(cfg.max_duration),
                   TotalTime(width, cfg.scroll_pixels_per_second,
                             cfg.duration_buffer)))

\* get_display_duration
get_display_duration ==
    IF cfg.dynamic_duration_enabled THEN dynamic_duration
    ELSE RInt(cfg.display_duration)

-----------------------------------------------------------------------------
(* What a call returns: a boolean, an image or a duration *)

\* no frame was handed to display_manager
NoFrame == [kind |-> "none", width |-> 0, height |-> 0, cols |-> <<>>]

\* raised: an exception left the call; ok, img, dur: the value returned;
\* arg: the list or image the call was given; frame: what the call put in
\* display_manager.image and pushed; log: the branches the call took;
\* calls: the fetches, scroll resets, image builds and worker thread starts
\* it made, in order;
\* call: the arguments of get_odds; odds: the odds it returned; games: the
\* games _fetch_league_games collected
Ret(b, img, dur) ==
    [raised |-> FALSE, ok |-> b, img |-> img, dur |-> dur, arg |-> None,
     frame |-> NoFrame, log |-> {}, calls |-> <<>>, call |-> <<>>,
     odds |-> [kind |-> "None"], games |-> <<>>]
NoRet == Ret(FALSE, None, RInt(0))

\* qticks: render calls that scrolled since scroll_position was last set to 0
\* by reset_scroll or start_display_session; disturbed: a loop reset, an end
\* clamp or an insufficient-time reset has moved the position since then
Fresh == [qticks |-> 0, disturbed |-> FALSE]

-----------------------------------------------------------------------------
(* The pixels of an image, column by column *)

\* x coordinate at which tile k of a strip is pasted (current_x in the loop)
RECURSIVE TileStart(_, _)
TileStart(tiles, k) ==
    IF k = 1 THEN matrix_width
    ELSE TileStart(tiles, k - 1) + tiles[k - 1] + GapWidth

\* the content of pixel column i (0-based) of an image
Column(img, i) ==
    IF i < 0 \/ i >= img.width THEN <<"black", 0, 0>>
    ELSE IF img.kind # "strip" THEN <<img.kind, 0, i>>
    ELSE LET inTile == {k \in 1..Len(img.tiles) :
                          /\ TileStart(img.tiles, k) <= i
                          /\ i < TileStart(img.tiles, k) + img.tiles[k]}
             isBar == \E k \in 1..(Len(img.tiles) - 1) :
                          i = TileStart(img.tiles, k) + img.tiles[k] + GapWidth \div 2
         IN  IF inTile # {}
             THEN LET k == CHOOSE k \in inTile : TRUE
                  IN  <<"tile", k, i - TileStart(img.tiles, k)>>
             ELSE IF isBar THEN <<"bar", 0, 0>> ELSE <<"black", 0, 0>>

\* the visible window: the main paste at -scroll_position, then the
\* wrap-around crop pasted at ticker_image.width - scroll_position
VisibleImage(img, pos) ==
    [kind |-> "viewport", width |-> matrix_width, height |-> matrix_height,
     cols |-> [x \in 1..matrix_width |->
                 LET i == pos + (x - 1)
                 IN  IF pos + matrix_width > img.width /\ i >= img.width
                     THEN Column(img, i - img.width)
                     ELSE Column(img, i)]]

-----------------------------------------------------------------------------
(* OddsTickerPlugin.__init__ and the objects it creates *)

\* the plugin's configuration: enabled, display_options.loop,
\* display_options.dynamic_duration and the two update intervals (seconds)
PluginConfigs ==
    {[enabled |-> e, loop |-> l, dynamic_duration |-> dd,
      update_interval |-> 2, live_game_update_interval |-> 1] :
        e \in BOOLEAN, l \in BOOLEAN, dd \in BOOLEAN}

\* the configuration of a plugin that is never displayed
NoPluginConfig ==
    [enabled |-> FALSE, loop |-> TRUE, dynamic_duration |-> TRUE,
     update_interval |-> 2, live_game_update_interval |-> 1]

\* ESPN event ids, and the events whose status_state is 'in'
Events == {"401", "402"}
LiveEvents == {"401"}
\* cache_key of get_odds: odds_espn_<sport>_<league>_<event_id>, with _live
\* appended for a live game
CacheKeys == {[event_id |-> e, is_live |-> e \in LiveEvents] : e \in Events}

\* what the odds cache holds and get_odds returns: None, a dictionary of odds
\* data, or the dictionary {"no_odds": True}
NoOdds == [kind |-> "None"]
OddsData == [kind |-> "odds"]
NoOddsMarker == [kind |-> "no_odds"]

\* the cache manager with no odds entry
EmptyCache == [key \in CacheKeys |-> NoOdds]

\* the fields __init__ sets; dynamic_duration is in whole seconds here
NewPlugin(config) ==
    [is_enabled |-> config.enabled,
     cache_manager |-> EmptyCache,
     loop |-> config.loop,
     dynamic_duration_enabled |-> config.dynamic_duration,
     base_update_interval |-> config.update_interval,
     live_game_update_interval |-> config.live_game_update_interval,
     dynamic_duration |-> DefaultDynamicDuration,
     total_scroll_width |-> 0,
     last_update |-> 0,
     show_favorite_teams_only |-> FALSE,
     show_odds_only |-> FALSE,
     favorite_teams |-> <<>>,
     games_per_favorite_team |-> 1,
     max_games_per_league |-> 5,
     scoreboards |-> <<>>,
     games_data |-> <<>>,
     current_game_index |-> 0,
     ticker_image |-> None,
     end_reached_logged |-> FALSE,
     insufficient_time_warning_logged |-> FALSE,
     display_start_time |-> NoTime]

\* the ScrollHelper as the plugin sees it: the attributes it reads and writes
\* and what is_scroll_complete() and get_dynamic_duration() answer
NewScrollHelper ==
    [scroll_position |-> 0, total_scroll_width |-> 0,
     scroll_complete |-> FALSE, cached_image |-> None,
     dynamic_duration |-> DefaultDynamicDuration]

\* no GameFilter was constructed
NoGameFilter ==
    [show_favorite_teams_only |-> FALSE, favorite_teams |-> {},
     max_games_per_league |-> 5, games |-> <<>>]

\* update: threads still running self.update(); image: threads still running
\* self._create_ticker_image(), after display() stopped waiting for them;
\* odds: the cache keys of the get_odds workers still running; push: the frames
\* (by number) whose display push is still running; frames: the frames
\* composed so far; shown: the number of the frame that reached the display
\* last
NoThreads ==
    [update |-> 0, image |-> 0, odds |-> {}, push |-> {}, frames |-> 0,
     shown |-> 0]

-----------------------------------------------------------------------------
(* OddsRenderer.__init__ *)

Init ==
    /\ now = T0
    /\ cfg \in Configs
    /\ scroll_position = 0
    /\ last_scroll_time = 0
    /\ ticker_image = None
    /\ total_scroll_width = 0
    /\ dynamic_duration = RInt(DefaultDynamicDuration)
    /\ end_reached_logged = FALSE
    /\ insufficient_time_warning_logged = FALSE
    /\ display_start_time = NoTime
    /\ last_op = "init"
    /\ last_ret = NoRet
    /\ track = Fresh
    /\ plugin = NewPlugin(NoPluginConfig)
    /\ scroll_helper = NewScrollHelper
    /\ threads = NoThreads
    /\ game_filter = NoGameFilter

\* the clock moves between calls
AdvanceSteps == {1, 2, 5}
Advance ==
    /\ \E d \in AdvanceSteps :
          /\ now + d <= T0 + MaxNow
          /\ now' = now + d
    /\ UNCHANGED <<pvars, cfg, rvars, hvars>>

-----------------------------------------------------------------------------
(* OddsRenderer.create_ticker_image(games_data) *)

\* empty list: the placeholder is returned and nothing is stored
CreateTickerImageEmpty ==
    /\ last_op' = "create_ticker_image"
    /\ last_ret' = [Ret(TRUE, create_no_data_image, RInt(0)) EXCEPT
                      !.arg = CompositeImage(<<>>), !.log = {"no_data"}]
    /\ UNCHANGED <<pvars, now, cfg, rvars, track>>

\* a variant that records the width of the whole strip, padding included
CreateTickerImageBuildRecordingStrip(games_data) ==
    /\ games_data # <<>>
    /\ total_scroll_width' = TotalWidth(games_data)
    /\ dynamic_duration' = calculate_dynamic_duration(TotalWidth(games_data))
    /\ ticker_image' = CompositeImage(games_data)
    /\ last_op' = "create_ticker_image"
    /\ last_ret' = [Ret(TRUE, CompositeImage(games_data), RInt(0)) EXCEPT
                      !.arg = CompositeImage(games_data), !.log = {"composite"}]
    /\ UNCHANGED <<pvars, now, cfg, scroll_position, last_scroll_time,
                   end_reached_logged, insufficient_time_warning_logged,
                   display_start_time, track>>

\* the composite is built, measured and stored
CreateTickerImageBuild(games_data) ==
    /\ games_data # <<>>
    /\ total_scroll_width' = ContentWidth(games_data)
    /\ dynamic_duration' = calculate_dynamic_duration(ContentWidth(games_data))
    /\ ticker_image' = CompositeImage(games_data)
    /\ last_op' = "create_ticker_image"
    /\ last_ret' = [Ret(TRUE, CompositeImage(games_data), RInt(0)) EXCEPT
                      !.arg = CompositeImage(games_data), !.log = {"composite"}]
    /\ UNCHANGED <<pvars, now, cfg, scroll_position, last_scroll_time,
                   end_reached_logged, insufficient_time_warning_logged,
                   display_start_time, track>>

\* drawing a tile or the composite raised: the except branch returns the
\* error image, before anything was stored
CreateTickerImageError(games_data) ==
    /\ games_data # <<>>
    /\ last_op' = "create_ticker_image"
    /\ last_ret' = [Ret(FALSE, create_error_image, RInt(0)) EXCEPT
                      !.log = {"error"}]
    /\ UNCHANGED <<pvars, now, cfg, rvars, track>>

create_ticker_image ==
    \/ CreateTickerImageEmpty
    \/ \E games_data \in GameLists : CreateTickerImageBuild(games_data)
    \/ \E games_data \in GameLists : CreateTickerImageError(games_data)

-----------------------------------------------------------------------------
(* OddsRenderer.render_scrolling_ticker(ticker_image) *)

\* should_scroll = current_time - self.last_scroll_time >= self.scroll_delay
ShouldScroll == now - last_scroll_time >= cfg.scroll_delay

\* a variant that moves one pixel per qualifying tick
ScrolledOnePixel == IF ShouldScroll THEN scroll_position + 1
                    ELSE scroll_position

\* scroll_position after "Scroll the image"
Scrolled == IF ShouldScroll THEN scroll_position + cfg.scroll_speed
            ELSE scroll_position

\* scroll_position after "Handle looping based on configuration"
LoopReset(img, pos) == IF pos >= img.width THEN 0 ELSE pos
EndReached(img, pos) == pos >= img.width - matrix_width
\* a variant that stops at the right edge of the strip
EndClampAtWidth(img, pos) == IF pos >= img.width THEN img.width ELSE pos
EndClamp(img, pos) == IF EndReached(img, pos) THEN img.width - matrix_width ELSE pos
Looped(img) ==
    IF cfg.loop THEN LoopReset(img, Scrolled) ELSE EndClamp(img, Scrolled)

\* remaining_time = self.dynamic_duration - elapsed_time, in seconds
RemainingTime ==
    RSub(dynamic_duration, Rat(now - display_start_time, cfg.ticks_per_second))

\* actual_scroll_speed = 54.2 pixels per second
ActualScrollSpeed == Rat(542, 10)

\* distance_to_complete
DistanceToComplete(img, pos) ==
    IF cfg.loop THEN img.width - pos
    ELSE (IF img.width - matrix_width > 0 THEN img.width - matrix_width ELSE 0) - pos

\* time_to_complete = distance_to_complete / actual_scroll_speed
TimeToComplete(img, pos) ==
    LET dist == DistanceToComplete(img, pos)
    IN  IF dist < 0
        THEN Rat(dist * ActualScrollSpeed.d, ActualScrollSpeed.n)
        ELSE Rat(dist * ActualScrollSpeed.d, ActualScrollSpeed.n)

\* "Not enough time, reset to beginning for clean transition"
InsufficientTime(img, pos) ==
    /\ RLt(RemainingTime, RInt(2))
    /\ pos > 0
    /\ ~RLe(TimeToComplete(img, pos), RemainingTime)

\* the branches one call takes, as the log lines and assignments it makes
\* and the set_scrolling_state calls it makes on the display manager
RenderLog(img) ==
    (IF ShouldScroll THEN {"scroll", "set_scrolling_state_true"} ELSE {})
    \cup (IF ~cfg.loop /\ EndReached(img, Scrolled)
          THEN {"set_scrolling_state_false"} ELSE {})
    \cup (IF cfg.loop /\ Scrolled >= img.width THEN {"loop_reset"} ELSE {})
    \cup (IF ~cfg.loop /\ EndReached(img, Scrolled) THEN {"end_clamp"} ELSE {})
    \cup (IF ~cfg.loop /\ EndReached(img, Scrolled) /\ ~end_reached_logged
          THEN {"end_reached_logged"} ELSE {})

Moved(log) == log \cap {"loop_reset", "end_clamp", "transition_reset"} # {}

Tracked(log) ==
    IF track.disturbed \/ Moved(log) THEN [qticks |-> 0, disturbed |-> TRUE]
    ELSE IF "scroll" \in log THEN [track EXCEPT !.qticks = @ + 1]
    ELSE track

\* if not ticker_image: return False
RenderNoImage ==
    /\ last_op' = "render_scrolling_ticker"
    /\ last_ret' = Ret(FALSE, None, RInt(0))
    /\ UNCHANGED <<pvars, now, cfg, rvars, track>>

\* the scroll state is advanced, then the subtraction with a None display
\* start time raises: except branch, return False, no frame
RenderRaises(img) ==
    /\ img # None
    /\ display_start_time = NoTime
    /\ scroll_position' = Looped(img)
    /\ last_scroll_time' = IF ShouldScroll THEN now ELSE last_scroll_time
    /\ end_reached_logged' =
          (end_reached_logged \/ (~cfg.loop /\ EndReached(img, Scrolled)))
    /\ last_op' = "render_scrolling_ticker"
    /\ last_ret' = [Ret(FALSE, None, RInt(0)) EXCEPT
                      !.arg = img, !.log = RenderLog(img) \cup {"error"}]
    /\ track' = Tracked(RenderLog(img))
    /\ UNCHANGED <<pvars, now, cfg, ticker_image, total_scroll_width, dynamic_duration,
                   insufficient_time_warning_logged, display_start_time>>

\* the scroll state is advanced and the frame is composed and stored in
\* display_manager.image (lines 651-734)
RenderFrameComposed(img) ==
    /\ img # None
    /\ display_start_time # NoTime
    /\ LET insufficient == InsufficientTime(img, Looped(img))
           pos == IF insufficient THEN 0 ELSE Looped(img)
           log == RenderLog(img)
                    \cup (IF insufficient THEN {"transition_reset"} ELSE {})
                    \cup (IF insufficient /\ ~insufficient_time_warning_logged
                          THEN {"insufficient_time_warning"} ELSE {})
       IN  /\ scroll_position' = pos
           /\ insufficient_time_warning_logged' =
                 (insufficient_time_warning_logged \/ insufficient)
           /\ last_ret' = [Ret(TRUE, None, RInt(0)) EXCEPT
                             !.arg = img, !.log = log,
                             !.frame = VisibleImage(img, pos)]
           /\ track' = Tracked(log)
    /\ last_scroll_time' = IF ShouldScroll THEN now ELSE last_scroll_time
    /\ end_reached_logged' =
          (end_reached_logged \/ (~cfg.loop /\ EndReached(img, Scrolled)))
    /\ last_op' = "render_scrolling_ticker"
    /\ UNCHANGED <<cfg, ticker_image, total_scroll_width, dynamic_duration,
                   display_start_time>>

\* the frame is composed and handed to the display manager; whether the
\* guarded push succeeds, fails or times out, the call returns True
RenderFrame(img) ==
    /\ RenderFrameComposed(img)
    /\ UNCHANGED <<pvars, now>>

\* the images a caller passes: the stored strip, or the placeholder that
\* create_ticker_image returns for an empty list
RenderArgs == {ticker_image, create_no_data_image}

render_scrolling_ticker ==
    \/ (ticker_image = None /\ RenderNoImage)
    \/ \E img \in RenderArgs : RenderRaises(img)
    \/ \E img \in RenderArgs : RenderFrame(img)

-----------------------------------------------------------------------------
(* OddsRenderer.reset_scroll *)

\* a variant that keeps the time of the last tick
reset_scroll_keeping_last_tick ==
    /\ scroll_position' = 0
    /\ end_reached_logged' = FALSE
    /\ insufficient_time_warning_logged' = FALSE
    /\ last_op' = "reset_scroll"
    /\ last_ret' = [NoRet EXCEPT !.log = IF scroll_position > 0 \/ end_reached_logged
                                         THEN {"rewound"} ELSE {}]
    /\ track' = Fresh
    /\ UNCHANGED <<pvars, now, cfg, last_scroll_time, ticker_image,
                   total_scroll_width, dynamic_duration, display_start_time>>

reset_scroll ==
    /\ scroll_position' = 0
    /\ last_scroll_time' = 0
    /\ end_reached_logged' = FALSE
    /\ insufficient_time_warning_logged' = FALSE
    /\ last_op' = "reset_scroll"
    /\ last_ret' = [NoRet EXCEPT !.log = IF scroll_position > 0 \/ end_reached_logged
                                         THEN {"rewound"} ELSE {}]
    /\ track' = Fresh
    /\ UNCHANGED <<pvars, now, cfg, ticker_image, total_scroll_width, dynamic_duration,
                   display_start_time>>

(* OddsRenderer.start_display_session(force_clear) *)

\* a staleness test without the factor 2
SessionOlderThanDuration ==
    RLt(RInt(dynamic_duration.n),
        Rat((now - display_start_time) * dynamic_duration.d, cfg.ticks_per_second))

\* elapsed_time > self.dynamic_duration * 2
SessionStale ==
    RLt(RInt(2 * dynamic_duration.n),
        Rat((now - display_start_time) * dynamic_duration.d, cfg.ticks_per_second))

start_display_session(force_clear) ==
    /\ IF force_clear \/ display_start_time = NoTime \/ SessionStale
       THEN /\ display_start_time' = now
            /\ scroll_position' = 0
            /\ end_reached_logged' = FALSE
            /\ insufficient_time_warning_logged' = FALSE
            /\ track' = Fresh
            /\ last_ret' = [NoRet EXCEPT !.log =
                              IF force_clear
                              THEN {"session_reset", "force_clear"}
                              ELSE IF display_start_time = NoTime
                                   THEN {"session_reset"}
                                   ELSE {"session_reset", "too_old"}]
       ELSE /\ UNCHANGED <<display_start_time, scroll_position,
                           end_reached_logged,
                           insufficient_time_warning_logged, track>>
            /\ last_ret' = NoRet
    /\ last_op' = "start_display_session"
    /\ UNCHANGED <<pvars, now, cfg, last_scroll_time, ticker_image, total_scroll_width,
                   dynamic_duration>>

(* OddsRenderer.get_display_duration *)

GetDisplayDuration ==
    /\ last_op' = "get_display_duration"
    /\ last_ret' = Ret(TRUE, None, get_display_duration)
    /\ UNCHANGED <<pvars, now, cfg, rvars, track>>

-----------------------------------------------------------------------------
Next ==
    \/ Advance
    \/ create_ticker_image
    \/ render_scrolling_ticker
    \/ reset_scroll
    \/ \E force_clear \in BOOLEAN : start_display_session(force_clear)
    \/ GetDisplayDuration

Spec == Init /\ [][Next]_vars

-----------------------------------------------------------------------------
(* The layout and duration functions on display-sized inputs: the renderer *)
(* is constructed, strips are built and the duration is read.              *)

\* at most this many games in a strip of the layout specification
LayoutMaxGames == 3
LayoutTileWidths == {40, 50, 60, 174}
LayoutGameLists == SeqsUpTo(LayoutTileWidths, LayoutMaxGames)

LayoutConfigs ==
    {[loop |-> TRUE, scroll_speed |-> 2, scroll_delay |-> 1,
      ticks_per_second |-> 20, dynamic_duration_enabled |-> dde,
      min_duration |-> r[1], max_duration |-> r[2],
      scroll_pixels_per_second |-> pps, duration_buffer |-> Rat(1, 10),
      display_duration |-> 30, matrix_width |-> mw, matrix_height |-> 32] :
        dde \in BOOLEAN, r \in {<<1, 4>>, <<30, 300>>, <<90, 300>>},
        pps \in {RInt(18), Rat(542, 10)}, mw \in {64, 128}}

InitLayout ==
    /\ now = T0
    /\ cfg \in LayoutConfigs
    /\ scroll_position = 0
    /\ last_scroll_time = 0
    /\ ticker_image = None
    /\ total_scroll_width = 0
    /\ dynamic_duration = RInt(DefaultDynamicDuration)
    /\ end_reached_logged = FALSE
    /\ insufficient_time_warning_logged = FALSE
    /\ display_start_time = NoTime
    /\ last_op = "init"
    /\ last_ret = NoRet
    /\ track = Fresh
    /\ plugin = NewPlugin(NoPluginConfig)
    /\ scroll_helper = NewScrollHelper
    /\ threads = NoThreads
    /\ game_filter = NoGameFilter

NextLayout ==
    \/ CreateTickerImageEmpty
    \/ \E games_data \in LayoutGameLists : CreateTickerImageBuild(games_data)
    \/ \E games_data \in LayoutGameLists : CreateTickerImageError(games_data)
    \/ GetDisplayDuration

SpecLayout == InitLayout /\ [][NextLayout]_vars

\* the same functions with a configured scroll_pixels_per_second of zero or
\* less
SpeedConfigs ==
    {[c EXCEPT !.scroll_pixels_per_second = pps] :
        c \in {l \in LayoutConfigs : l.matrix_width = 64},
        pps \in {RInt(0), RInt(0 - 18)}}

InitSpeed ==
    /\ now = T0
    /\ cfg \in SpeedConfigs
    /\ scroll_position = 0
    /\ last_scroll_time = 0
    /\ ticker_image = None
    /\ total_scroll_width = 0
    /\ dynamic_duration = RInt(DefaultDynamicDuration)
    /\ end_reached_logged = FALSE
    /\ insufficient_time_warning_logged = FALSE
    /\ display_start_time = NoTime
    /\ last_op = "init"
    /\ last_ret = NoRet
    /\ track = Fresh
    /\ plugin = NewPlugin(NoPluginConfig)
    /\ scroll_helper = NewScrollHelper
    /\ threads = NoThreads
    /\ game_filter = NoGameFilter

SpecSpeed == InitSpeed /\ [][NextLayout]_vars

-----------------------------------------------------------------------------
(* OddsTickerPlugin: what its methods do to the plugin and its ScrollHelper *)

\* at most this many seconds pass in the plugin specification
PluginMaxNow == 1
\* at most this many abandoned worker threads at a time
MaxThreads == 1

Min(a, b) == IF a <= b THEN a ELSE b
Max(a, b) == IF a >= b THEN a ELSE b

\* what a method works on while it runs: the plugin's fields p, the helper h,
\* the abandoned threads t, the calls made so far c, and whether an exception
\* is propagating x
Here == [p |-> plugin, h |-> scroll_helper, t |-> threads, c |-> <<>>,
         x |-> FALSE]

\* _fetch_upcoming_games(): a list of games (their tile widths), or it raises
PluginGameLists == {<<>>, <<2>>}
FetchResults ==
    {[raised |-> TRUE, games |-> <<>>]}
        \cup {[raised |-> FALSE, games |-> g] : g \in PluginGameLists}

\* what building the image gives: _create_game_display or the helper raises,
\* or scroll_helper.create_scrolling_image returns an image and the helper
\* then reports total_scroll_width and get_dynamic_duration()
HelperDurations == {0, 1}
BuildResults ==
    {[raised |-> TRUE, image_width |-> 0, total_scroll_width |-> 0,
      dynamic_duration |-> 0]}
        \cup {[raised |-> FALSE, image_width |-> 12, total_scroll_width |-> 8,
               dynamic_duration |-> d] : d \in HelperDurations}

\* what scroll_helper.update_scroll_position() leaves: scrolling on, at the
\* end of the content, or wrapped to the start
ScrollResults ==
    {[scroll_position |-> 1, scroll_complete |-> FALSE],
     [scroll_position |-> 2, scroll_complete |-> TRUE],
     [scroll_position |-> 0, scroll_complete |-> FALSE]}

\* _get_current_update_interval(): the live interval when _has_live_games()
Intervals(p) == {p.live_game_update_interval, p.base_update_interval}

\* self.scroll_helper.reset_scroll()
scroll_helper_reset_scroll(st) ==
    [st EXCEPT !.h.scroll_position = 0, !.h.scroll_complete = FALSE,
               !.c = Append(@, "reset_scroll")]

\* OddsTickerPlugin._create_ticker_image
plugin_create_ticker_image(st, built) ==
    LET called == [st EXCEPT !.c = Append(@, "create_ticker_image")]
    IN  IF st.p.games_data = <<>>
        THEN [called EXCEPT !.p.ticker_image = None, !.h.cached_image = None]
        ELSE IF built.raised THEN [called EXCEPT !.x = TRUE]
        ELSE LET img == [kind |-> "strip", width |-> built.image_width,
                         height |-> matrix_height, tiles |-> st.p.games_data]
             IN  [called EXCEPT
                    !.p.ticker_image = img,
                    !.h.cached_image = img,
                    !.h.total_scroll_width = built.total_scroll_width,
                    !.h.dynamic_duration = built.dynamic_duration,
                    !.p.total_scroll_width = built.total_scroll_width,
                    !.p.dynamic_duration = built.dynamic_duration]

\* _perform_update, lines 2331-2341: the games are fetched and stored and
\* the scroll is rewound, the image is not built yet
refreshed(st, preserve_scroll, fetched) ==
    LET got == [st EXCEPT !.c = Append(@, "fetch"),
                          !.p.games_data = fetched.games,
                          !.p.last_update = now]
    IN  IF preserve_scroll THEN got
        ELSE LET r == IF got.p.loop \/ ~got.h.scroll_complete
                      THEN scroll_helper_reset_scroll(got) ELSE got
             IN  [r EXCEPT
                    !.p.current_game_index = 0,
                    !.p.end_reached_logged = FALSE,
                    !.p.insufficient_time_warning_logged = FALSE]

\* OddsTickerPlugin._perform_update(preserve_scroll)
perform_update(st, preserve_scroll, interval, fetched, built) ==
    IF now - st.p.last_update < interval THEN st
    ELSE
    LET saved_scroll_position == st.h.scroll_position
        asked == [st EXCEPT !.c = Append(@, "fetch")]
    IN  IF fetched.raised THEN asked
        ELSE
        LET rewound == refreshed(st, preserve_scroll, fetched)
            image == plugin_create_ticker_image(rewound, built)
        IN  IF image.x THEN [image EXCEPT !.x = FALSE]
            ELSE IF preserve_scroll
            THEN [image EXCEPT !.h.scroll_position =
                    Min(saved_scroll_position,
                        Max(0, image.h.total_scroll_width))]
            ELSE image

\* OddsTickerPlugin.update; is_currently_scrolling: what the display manager
\* answers (the update is then handed to defer_update and not run here)
update_from(st, is_currently_scrolling, interval, fetched, built) ==
    IF ~st.p.is_enabled THEN st
    ELSE IF is_currently_scrolling THEN st
    ELSE perform_update(st, FALSE, interval, fetched, built)

\* every state self.update() can leave
UpdateResults(st) ==
    {update_from(st, s, i, f, b) :
        s \in BOOLEAN, i \in Intervals(st.p), f \in FetchResults,
        b \in BuildResults}

-----------------------------------------------------------------------------
(* OddsTickerPlugin: the entry points the host calls *)

\* the method returns: its effects become the state
Returns(op, st, ret) ==
    /\ plugin' = st.p
    /\ scroll_helper' = st.h
    /\ threads' = st.t
    /\ last_op' = op
    /\ last_ret' = [ret EXCEPT !.calls = st.c]
    /\ UNCHANGED <<now, cfg, rvars, track, game_filter>>

\* the image _display_fallback_message draws and pushes
fallback_image ==
    [kind |-> "fallback", width |-> matrix_width, height |-> matrix_height,
     tiles |-> <<>>]

\* an image as display_manager.image
Shown(img) ==
    [kind |-> img.kind, width |-> img.width, height |-> img.height,
     cols |-> [x \in 1..img.width |-> Column(img, x - 1)]]

\* the display-sized portion scroll_helper.get_visible_portion() returned
visible_image ==
    [kind |-> "visible", width |-> matrix_width, height |-> matrix_height,
     tiles |-> <<>>]

\* display, lines 2378-2407: the preserving update when the interval has
\* passed, then the start or the stale-session restart of the session
DisplayBegin(st, force_clear) ==
    LET updated ==
            {IF now - st.p.last_update >= i
             THEN perform_update(st, TRUE, i, f, b) ELSE st :
                i \in Intervals(st.p), f \in FetchResults, b \in BuildResults}
        Restart(u) ==
            LET r == scroll_helper_reset_scroll(u)
            IN  [r EXCEPT !.p.display_start_time = now,
                          !.p.end_reached_logged = FALSE,
                          !.p.insufficient_time_warning_logged = FALSE]
    IN  {IF force_clear \/ u.p.display_start_time = NoTime THEN Restart(u)
         ELSE IF now - u.p.display_start_time > u.p.dynamic_duration * 2
         THEN Restart(u)
         ELSE u : u \in updated}

\* what a self.update() still running has done when display() reads
\* games_data again: the games are stored and the image is still to be built
UpdateInProgress(st) ==
    IF ~st.p.is_enabled THEN {}
    ELSE {[refreshed(st, FALSE, f) EXCEPT !.t.image = @ + 1] :
             f \in {r \in FetchResults : ~r.raised},
             i \in {j \in Intervals(st.p) : now - st.p.last_update >= j}}

\* display, lines 2410-2439: with no games, self.update() runs in a thread
\* that display waits 10 s for; a thread that is not done by then is left
\* running, before its fetch or between its fetch and its image
DisplayUpdate(st) ==
    IF st.p.games_data # <<>> THEN {st}
    ELSE LET started == [st EXCEPT !.c = Append(@, "update_thread")]
         IN  UpdateResults(started)
               \cup (IF st.t.update + st.t.image < MaxThreads
                     THEN {[started EXCEPT !.t.update = @ + 1]}
                            \cup UpdateInProgress(started)
                     ELSE {})

\* display, lines 2446-2474: with no image, self._create_ticker_image() runs
\* in a thread that display waits 5 s for; its exception is put in the queue
DisplayCreate(st) ==
    IF st.p.ticker_image # None THEN {st}
    ELSE LET started == [st EXCEPT !.c = Append(@, "image_thread")]
         IN  {[plugin_create_ticker_image(started, b) EXCEPT !.x = FALSE] :
                 b \in BuildResults}
               \cup (IF st.t.update + st.t.image < MaxThreads
                     THEN {[started EXCEPT !.t.image = @ + 1]} ELSE {})

\* display, lines 2481-2541: scroll, take the visible portion, push it; an
\* exception on the way is caught and the fallback is shown
DisplayScroll(st) ==
    LET scrolled ==
            IF st.p.loop \/ ~st.h.scroll_complete
            THEN {[st EXCEPT !.h.scroll_position = m.scroll_position,
                             !.h.scroll_complete = m.scroll_complete] :
                     m \in ScrollResults}
            ELSE {[st EXCEPT !.p.end_reached_logged = TRUE]}
    IN  {[st |-> u, frame |-> Shown(fallback_image), log |-> {"error"}] :
            u \in scrolled \cup {st}}
          \cup {[st |-> u, frame |-> Shown(fallback_image),
                 log |-> {"no_visible_portion"}] : u \in scrolled}
          \cup {[st |-> [u EXCEPT !.p.dynamic_duration = u.h.dynamic_duration],
                 frame |-> Shown(visible_image), log |-> {"scrolled"}] :
                    u \in scrolled}

\* OddsTickerPlugin.display(force_clear) of a disabled plugin
DisplayDisabled ==
    /\ ~plugin.is_enabled
    /\ Returns("display", Here,
               [Ret(TRUE, None, RInt(0)) EXCEPT !.log = {"disabled"}])

\* display ends in the fallback message: no games, or no image
DisplayFallback(force_clear) ==
    /\ plugin.is_enabled
    /\ \E a \in DisplayBegin(Here, force_clear) :
       \E b \in DisplayUpdate(a) :
          \/ /\ b.p.games_data = <<>>
             /\ Returns("display", b,
                        [Ret(TRUE, None, RInt(0)) EXCEPT
                           !.frame = Shown(fallback_image),
                           !.log = {"no_games"}])
          \/ /\ b.p.games_data # <<>>
             /\ \E c \in DisplayCreate(b) :
                   /\ c.p.ticker_image = None
                   /\ Returns("display", c,
                              [Ret(TRUE, None, RInt(0)) EXCEPT
                                 !.frame = Shown(fallback_image),
                                 !.log = {"no_image"}])

\* display reaches the scrolling part
DisplayFrame(force_clear) ==
    /\ plugin.is_enabled
    /\ \E a \in DisplayBegin(Here, force_clear) :
       \E b \in DisplayUpdate(a) :
          /\ b.p.games_data # <<>>
          /\ \E c \in DisplayCreate(b) :
                /\ c.p.ticker_image # None
                /\ \E d \in DisplayScroll(c) :
                      Returns("display", d.st,
                              [Ret(TRUE, None, RInt(0)) EXCEPT
                                 !.frame = d.frame, !.log = d.log])

display ==
    \/ DisplayDisabled
    \/ \E force_clear \in BOOLEAN : DisplayFallback(force_clear)
    \/ \E force_clear \in BOOLEAN : DisplayFrame(force_clear)

\* a thread display() stopped waiting for finishes self.update()
UpdateThreadFinishes ==
    /\ threads.update > 0
    /\ \E u \in UpdateResults(Here) :
          /\ plugin' = u.p
          /\ scroll_helper' = u.h
          /\ threads' = [threads EXCEPT !.update = @ - 1]
    /\ last_op' = "update_thread"
    /\ last_ret' = NoRet
    /\ UNCHANGED <<now, cfg, rvars, track, game_filter>>

\* a thread display() stopped waiting for finishes self._create_ticker_image()
ImageThreadFinishes ==
    /\ threads.image > 0
    /\ \E b \in BuildResults :
          LET u == plugin_create_ticker_image(Here, b)
          IN  /\ plugin' = u.p
              /\ scroll_helper' = u.h
              /\ threads' = [threads EXCEPT !.image = @ - 1]
    /\ last_op' = "image_thread"
    /\ last_ret' = NoRet
    /\ UNCHANGED <<now, cfg, rvars, track, game_filter>>

\* OddsTickerPlugin.update()
update ==
    \E u \in UpdateResults(Here) :
        Returns("update", u, Ret(TRUE, None, RInt(0)))

\* a variant that refreshes a disabled plugin too
dynamic_duration_from_any(st, fetched, built) ==
    IF st.p.total_scroll_width = 0
    THEN LET asked == [st EXCEPT !.c = Append(@, "fetch")]
         IN  IF fetched.raised THEN asked
             ELSE [plugin_create_ticker_image(
                      scroll_helper_reset_scroll(
                         [asked EXCEPT !.p.games_data = fetched.games,
                                       !.p.current_game_index = 0]),
                      built) EXCEPT !.x = FALSE]
    ELSE st

\* OddsTickerPlugin.get_dynamic_duration(): with nothing measured, one forced
\* update inside try/except, then the stored duration
dynamic_duration_from(st, fetched, built) ==
    IF st.p.total_scroll_width = 0 /\ st.p.is_enabled
    THEN LET asked == [st EXCEPT !.c = Append(@, "fetch")]
         IN  IF fetched.raised THEN asked
             ELSE [plugin_create_ticker_image(
                      scroll_helper_reset_scroll(
                         [asked EXCEPT !.p.games_data = fetched.games,
                                       !.p.current_game_index = 0]),
                      built) EXCEPT !.x = FALSE]
    ELSE st

get_dynamic_duration ==
    \E f \in FetchResults, b \in BuildResults :
        LET u == dynamic_duration_from(Here, f, b)
        IN  Returns("get_dynamic_duration", u,
                    Ret(TRUE, None, RInt(u.p.dynamic_duration)))

\* OddsTickerPlugin.supports_dynamic_duration()
supports_dynamic_duration ==
    IF ~plugin.is_enabled THEN FALSE ELSE plugin.dynamic_duration_enabled

\* a variant that does not ask for dynamic_duration > 0
cycle_complete_any_duration ==
    IF ~supports_dynamic_duration THEN TRUE
    ELSE IF /\ plugin.display_start_time # NoTime
            /\ now - plugin.display_start_time >= plugin.dynamic_duration
    THEN TRUE
    ELSE IF ~plugin.loop /\ scroll_helper.scroll_complete THEN TRUE
    ELSE FALSE

\* what OddsTickerPlugin.is_cycle_complete() returns
cycle_complete ==
    IF ~supports_dynamic_duration THEN TRUE
    ELSE IF /\ plugin.display_start_time # NoTime
            /\ plugin.dynamic_duration > 0
            /\ now - plugin.display_start_time >= plugin.dynamic_duration
    THEN TRUE
    ELSE IF ~plugin.loop /\ scroll_helper.scroll_complete THEN TRUE
    ELSE FALSE

is_cycle_complete ==
    Returns("is_cycle_complete", Here, Ret(cycle_complete, None, RInt(0)))

\* OddsTickerPlugin.reset_cycle_state()
reset_cycle_state ==
    Returns("reset_cycle_state",
            [scroll_helper_reset_scroll(Here) EXCEPT
               !.p.end_reached_logged = FALSE],
            Ret(TRUE, None, RInt(0)))

\* the clock moves between the host's calls
PluginAdvance ==
    /\ \E d \in {1, 2} :
          /\ now + d <= T0 + PluginMaxNow
          /\ now' = now + d
    /\ UNCHANGED <<cfg, rvars, hvars, pvars>>

PluginDisplays ==
    {c \in Configs : c.ticks_per_second = 1 /\ c.loop
                       /\ c.dynamic_duration_enabled /\ c.min_duration = 30}

InitPlugin ==
    /\ now = T0
    /\ cfg \in PluginDisplays
    /\ scroll_position = 0
    /\ last_scroll_time = 0
    /\ ticker_image = None
    /\ total_scroll_width = 0
    /\ dynamic_duration = RInt(DefaultDynamicDuration)
    /\ end_reached_logged = FALSE
    /\ insufficient_time_warning_logged = FALSE
    /\ display_start_time = NoTime
    /\ last_op = "init"
    /\ last_ret = NoRet
    /\ track = Fresh
    /\ \E config \in PluginConfigs : plugin = NewPlugin(config)
    /\ scroll_helper = NewScrollHelper
    /\ threads = NoThreads
    /\ game_filter = NoGameFilter

NextPlugin ==
    \/ PluginAdvance
    \/ display
    \/ update
    \/ UpdateThreadFinishes
    \/ ImageThreadFinishes
    \/ get_dynamic_duration
    \/ is_cycle_complete
    \/ reset_cycle_state
    \/ CreateTickerImageEmpty

SpecPlugin == InitPlugin /\ [][NextPlugin]_vars

-----------------------------------------------------------------------------
(* _perform_update on its own, with either value of preserve_scroll *)

\* the builds of the plugin, and one whose content is narrower than the
\* position a scroll can have reached
RefreshBuilds ==
    BuildResults
        \cup {[raised |-> FALSE, image_width |-> 5, total_scroll_width |-> 1,
               dynamic_duration |-> 1]}

\* the image display() built from one game
ShownStrip ==
    [kind |-> "strip", width |-> 12, height |-> matrix_height, tiles |-> <<2>>]

\* the plugin and its helper when _perform_update is called: as constructed,
\* or with one game on display and the scroll anywhere display() leaves it
RefreshStates ==
    {[p |-> NewPlugin(config), h |-> NewScrollHelper] : config \in PluginConfigs}
        \cup {[p |-> [NewPlugin(config) EXCEPT
                        !.games_data = <<2>>,
                        !.ticker_image = ShownStrip,
                        !.total_scroll_width = 8,
                        !.dynamic_duration = d,
                        !.end_reached_logged = e,
                        !.display_start_time = T0],
               h |-> [scroll_position |-> m.scroll_position,
                      total_scroll_width |-> 8,
                      scroll_complete |-> m.scroll_complete,
                      cached_image |-> ShownStrip,
                      dynamic_duration |-> d]] :
                 config \in PluginConfigs, d \in HelperDurations,
                 e \in BOOLEAN, m \in ScrollResults}

\* a variant that puts the saved position back as it was
perform_update_unclamped(st, preserve_scroll, interval, fetched, built) ==
    LET done == perform_update(st, preserve_scroll, interval, fetched, built)
    IN  IF preserve_scroll /\ done.p.last_update # st.p.last_update
           /\ "create_ticker_image" \in {done.c[k] : k \in DOMAIN done.c}
           /\ ~(done.p.games_data # <<>> /\ built.raised)
        THEN [done EXCEPT !.h.scroll_position = st.h.scroll_position]
        ELSE done

\* what _perform_update(preserve_scroll) leaves
performed_update(st, preserve_scroll, interval, fetched, built) ==
    perform_update(st, preserve_scroll, interval, fetched, built)

\* _perform_update logs "Error updating odds ticker": the fetch or the image
\* build raised inside its try block
update_failed(st, interval, fetched, built) ==
    /\ now - st.p.last_update >= interval
    /\ \/ fetched.raised
       \/ fetched.games # <<>> /\ built.raised

\* a call of OddsTickerPlugin._perform_update(preserve_scroll)
PerformUpdate ==
    \E preserve_scroll \in BOOLEAN, i \in Intervals(plugin),
       f \in FetchResults, b \in RefreshBuilds :
        Returns("_perform_update",
                performed_update(Here, preserve_scroll, i, f, b),
                [Ret(TRUE, None, RInt(0)) EXCEPT
                   !.log = (IF preserve_scroll THEN {"preserve_scroll"}
                            ELSE {})
                           \cup (IF update_failed(Here, i, f, b)
                                 THEN {"error"} ELSE {})])

InitRefresh ==
    /\ now = T0
    /\ cfg \in PluginDisplays
    /\ scroll_position = 0
    /\ last_scroll_time = 0
    /\ ticker_image = None
    /\ total_scroll_width = 0
    /\ dynamic_duration = RInt(DefaultDynamicDuration)
    /\ end_reached_logged = FALSE
    /\ insufficient_time_warning_logged = FALSE
    /\ display_start_time = NoTime
    /\ last_op = "init"
    /\ last_ret = NoRet
    /\ track = Fresh
    /\ \E st \in RefreshStates : plugin = st.p /\ scroll_helper = st.h
    /\ threads = NoThreads
    /\ game_filter = NoGameFilter

NextRefresh ==
    \/ PluginAdvance
    \/ PerformUpdate

SpecRefresh == InitRefresh /\ [][NextRefresh]_vars

-----------------------------------------------------------------------------
(* The guarded display push of render_scrolling_ticker, lines 736-763: the *)
(* push runs in a daemon thread that the call waits 1 second for.          *)

\* at most this many frames are composed in the push specification
MaxFrames == 3
\* at most this many seconds pass in the push specification
PushMaxNow == 3

\* what display_queue.get(timeout=1) gives
PushOutcomes == {"success", "error", "timeout"}

\* render_scrolling_ticker with its push thread: update_display() returns in
\* time, raises, or is still running after 1 second and is left running
RenderFramePushed(img, outcome) ==
    /\ RenderFrameComposed(img)
    /\ threads.frames < MaxFrames
    /\ LET n == threads.frames + 1
       IN  CASE outcome = "success" ->
                  /\ threads' = [threads EXCEPT !.frames = n, !.shown = n]
                  /\ now' = now
             [] outcome = "error" ->
                  /\ threads' = [threads EXCEPT !.frames = n]
                  /\ now' = now
             [] outcome = "timeout" ->
                  /\ now + cfg.ticks_per_second <= T0 + PushMaxNow
                  /\ now' = now + cfg.ticks_per_second
                  /\ threads' = [threads EXCEPT !.frames = n,
                                                !.push = @ \cup {n}]
    /\ UNCHANGED <<plugin, scroll_helper, game_filter>>

render_scrolling_ticker_pushing ==
    \/ (ticker_image = None /\ RenderNoImage)
    \/ \E img \in RenderArgs : RenderRaises(img)
    \/ \E img \in RenderArgs, outcome \in PushOutcomes :
          RenderFramePushed(img, outcome)

\* a push thread left running ends: update_display() has put on the display
\* the image display_manager.image held when the thread started, or the one
\* it holds now (the field is shared with the render calls made since)
PushThreadFinishes ==
    /\ \E n \in threads.push :
       \E frame \in {n, threads.frames} :
          threads' = [threads EXCEPT !.push = @ \ {n}, !.shown = frame]
    /\ last_op' = "push_thread"
    /\ last_ret' = NoRet
    /\ UNCHANGED <<now, cfg, rvars, track, plugin, scroll_helper,
                   game_filter>>

PushConfigs ==
    {c \in Configs : c.ticks_per_second = 1 /\ c.loop
                       /\ c.dynamic_duration_enabled /\ c.min_duration = 30}

\* the clock moves between calls
PushAdvance ==
    /\ now + 1 <= T0 + PushMaxNow
    /\ now' = now + 1
    /\ UNCHANGED <<pvars, cfg, rvars, hvars>>

InitPush ==
    /\ Init
    /\ cfg \in PushConfigs

NextPush ==
    \/ PushAdvance
    \/ create_ticker_image
    \/ render_scrolling_ticker_pushing
    \/ \E force_clear \in BOOLEAN : start_display_session(force_clear)
    \/ PushThreadFinishes

SpecPush == InitPush /\ [][NextPush]_vars

-----------------------------------------------------------------------------
(* OddsTickerPlugin.get_odds, and the odds worker of _fetch_league_games,  *)
(* lines 1105-1185: get_odds runs in a daemon thread that the loop waits   *)
(* 3 seconds for.                                                          *)

\* a sport or league argument: None or a name
NoName == "None"
Sports == {NoName, "football"}
Leagues == {NoName, "nfl"}

\* what the ESPN request and _extract_espn_data give on a cache miss: odds
\* data, nothing (no odds for the event), one of the two exceptions that
\* get_odds catches (RequestException, JSONDecodeError), or an exception of
\* another class
Responses == {"odds", "nothing", "RequestException", "Exception"}

\* if cached_data:
Truthy(value) == value # NoOdds

\* get_odds: whether it raises, the value it returns and the cache it leaves
get_odds_from(cache, sport, league, key, response) ==
    LET cached_data == cache[key]
        Answer(r, v, c, l) ==
            [raised |-> r, value |-> v, cache |-> c, log |-> l]
    IN  IF sport = NoName \/ league = NoName
        THEN Answer(TRUE, NoOdds, cache, {"ValueError"})
        ELSE IF Truthy(cached_data)
        THEN Answer(FALSE, cached_data, cache, {"cached"})
        ELSE CASE response = "odds" ->
                    Answer(FALSE, OddsData,
                           [cache EXCEPT ![key] = OddsData], {"fetched"})
               [] response = "nothing" ->
                    Answer(FALSE, NoOdds,
                           [cache EXCEPT ![key] = NoOddsMarker], {"fetched"})
               [] response = "RequestException" ->
                    Answer(FALSE, cache[key], cache, {"request_failed"})
               [] OTHER ->
                    Answer(TRUE, NoOdds, cache, {"Exception"})

get_odds ==
    /\ \E sport \in Sports, league \in Leagues, key \in CacheKeys,
          response \in Responses :
          LET answer == get_odds_from(plugin.cache_manager, sport, league,
                                      key, response)
          IN  /\ plugin' = [plugin EXCEPT !.cache_manager = answer.cache]
              /\ last_ret' = [NoRet EXCEPT
                                !.raised = answer.raised,
                                !.odds = answer.value,
                                !.log = answer.log,
                                !.call = <<sport, league, key>>]
    /\ last_op' = "get_odds"
    /\ UNCHANGED <<now, cfg, rvars, track, scroll_helper, threads,
                   game_filter>>

\* the cache manager drops an entry whose time to live has passed
CacheExpires ==
    /\ \E key \in CacheKeys :
          /\ plugin.cache_manager[key] # NoOdds
          /\ plugin' = [plugin EXCEPT !.cache_manager[key] = NoOdds]
    /\ last_op' = "cache_expires"
    /\ last_ret' = NoRet
    /\ UNCHANGED <<now, cfg, rvars, track, scroll_helper, threads,
                   game_filter>>

\* at most this many events on the scoreboard
MaxEvents == 2

\* the events of the scoreboard that pass the filters, in order: the id and
\* whether status_state is 'in'
ScoreboardEvents == {[id |-> e, live |-> e \in LiveEvents] : e \in Events}
Scoreboards ==
    {s \in SeqsUpTo(ScoreboardEvents, MaxEvents) :
        \A i, j \in DOMAIN s : i # j => s[i].id # s[j].id}

\* what the worker of one event does: get_odds with one of the responses, or
\* no answer within 3 seconds
OddsWorkers == Responses \cup {"timeout"}

\* has_odds, lines 1149-1158
has_odds(odds_data) == Truthy(odds_data) /\ odds_data # NoOddsMarker

\* the game dictionary, lines 1165-1184
Game(event, odds_data) ==
    [id |-> event.id, live |-> event.live,
     odds |-> IF has_odds(odds_data) THEN odds_data ELSE NoOdds]

\* a variant that leaves out a game whose odds worker timed out
RECURSIVE league_games_dropping(_, _, _)
league_games_dropping(st, events, workers) ==
    IF events = <<>> THEN st
    ELSE LET event == Head(events)
             key == [event_id |-> event.id, is_live |-> event.live]
             worker == Head(workers)
             answer == get_odds_from(st.cache, "football", "nfl", key, worker)
             next ==
                IF worker = "timeout"
                THEN [st EXCEPT !.odds_threads = @ \cup {key},
                                !.log = Append(@, "timed_out")]
                ELSE IF answer.raised
                THEN [st EXCEPT !.games = Append(@, Game(event, NoOdds)),
                                !.log = Append(@, "failed")]
                ELSE [st EXCEPT !.cache = answer.cache,
                                !.games = Append(@, Game(event, answer.value)),
                                !.log = Append(@, "success")]
         IN  league_games_dropping(next, Tail(events), Tail(workers))

\* the loop over the events: one worker per event, then the game is appended
RECURSIVE league_games_from(_, _, _)
league_games_from(st, events, workers) ==
    IF events = <<>> THEN st
    ELSE LET event == Head(events)
             key == [event_id |-> event.id, is_live |-> event.live]
             worker == Head(workers)
             answer == get_odds_from(st.cache, "football", "nfl", key, worker)
             next ==
                IF worker = "timeout"
                THEN [st EXCEPT !.odds_threads = @ \cup {key},
                                !.games = Append(@, Game(event, NoOdds)),
                                !.log = Append(@, "timed_out")]
                ELSE IF answer.raised
                THEN [st EXCEPT !.games = Append(@, Game(event, NoOdds)),
                                !.log = Append(@, "failed")]
                ELSE [st EXCEPT !.cache = answer.cache,
                                !.games = Append(@, Game(event, answer.value)),
                                !.log = Append(@, "success")]
         IN  league_games_from(next, Tail(events), Tail(workers))

\* OddsTickerPlugin._fetch_league_games with fetch_odds on
fetch_league_games ==
    /\ \E events \in Scoreboards :
       \E workers \in SeqsUpTo(OddsWorkers, MaxEvents) :
          /\ Len(workers) = Len(events)
          /\ LET all_games ==
                    league_games_from(
                        [cache |-> plugin.cache_manager,
                         odds_threads |-> threads.odds,
                         games |-> <<>>, log |-> <<>>],
                        events, workers)
             IN  /\ Cardinality(all_games.odds_threads) <= MaxThreads
                 /\ plugin' = [plugin EXCEPT !.cache_manager = all_games.cache]
                 /\ threads' = [threads EXCEPT !.odds = all_games.odds_threads]
                 /\ last_ret' = [NoRet EXCEPT !.games = all_games.games,
                                              !.calls = all_games.log,
                                              !.call = events]
    /\ last_op' = "fetch_league_games"
    /\ UNCHANGED <<now, cfg, rvars, track, scroll_helper, game_filter>>

\* an odds worker the loop stopped waiting for finishes get_odds
OddsThreadFinishes ==
    /\ \E key \in threads.odds :
       \E response \in Responses :
          /\ plugin' = [plugin EXCEPT !.cache_manager =
                          get_odds_from(@, "football", "nfl", key,
                                        response).cache]
          /\ threads' = [threads EXCEPT !.odds = @ \ {key}]
    /\ last_op' = "odds_thread"
    /\ last_ret' = NoRet
    /\ UNCHANGED <<now, cfg, rvars, track, scroll_helper, game_filter>>

\* the plugin whose odds are fetched
FetchConfigs == {c \in PluginConfigs : c.loop /\ c.dynamic_duration}

InitFetch ==
    /\ InitPlugin
    /\ plugin \in {NewPlugin(config) : config \in FetchConfigs}

\* the odds of the plugin: get_odds, the cache, the league fetch
NextOdds ==
    \/ get_odds
    \/ CacheExpires
    \/ fetch_league_games
    \/ OddsThreadFinishes

SpecOdds == InitFetch /\ [][NextOdds]_vars

\* the timeout-guarded workers of the plugin: the league fetch and display()
NextWorkers ==
    \/ fetch_league_games
    \/ OddsThreadFinishes
    \/ display
    \/ UpdateThreadFinishes
    \/ ImageThreadFinishes

SpecWorkers == InitFetch /\ [][NextWorkers]_vars

-----------------------------------------------------------------------------
(* _fetch_upcoming_games for one league: the scan of the dates in            *)
(* _fetch_league_games, then the selection                                   *)

\* at most this many events on the scoreboards of all the dates together
MaxBoardGames == 2

\* the dates scanned, in order: yesterday and today (future_fetch_days = 0)
DateList == <<1, 2>>
\* home and away abbreviations of the events
Matchups == {<<"A", "B">>, <<"A", "C">>, <<"C", "D">>}
\* an event that passes the status and time-window tests: the date whose
\* scoreboard lists it, its teams, whether get_odds gives it usable odds
\* (has_odds), and the place of its start among those of that date
DatedEvents ==
    [date : {DateList[k] : k \in DOMAIN DateList}, teams : Matchups,
     odds : BOOLEAN, slot : {1, 2}]

\* the scoreboards, as the events in the order the scan meets them
Boards ==
    {b \in SeqsUpTo(DatedEvents, MaxBoardGames) :
        \A i, j \in DOMAIN b : i < j => b[i].date <= b[j].date}

\* the game dictionary of the k-th event of the board, lines 1165-1184
BoardGame(board, k) ==
    [id |-> k, date |-> board[k].date,
     home_team |-> board[k].teams[1], away_team |-> board[k].teams[2],
     start_time |-> 10 * board[k].date + board[k].slot,
     odds |-> IF board[k].odds THEN OddsData ELSE NoOdds]

BoardGames(board) == [k \in DOMAIN board |-> BoardGame(board, k)]

\* the elements of a sequence as a set
Range(s) == {s[k] : k \in DOMAIN s}

\* the first n elements: s[:n]
First(s, n) == SubSeq(s, 1, Min(n, Len(s)))

\* list.sort(key=start_time): a stable sort
RECURSIVE InsertByStart(_, _)
InsertByStart(sorted, g) ==
    IF sorted = <<>> THEN <<g>>
    ELSE IF Head(sorted).start_time <= g.start_time
    THEN <<Head(sorted)>> \o InsertByStart(Tail(sorted), g)
    ELSE <<g>> \o sorted

RECURSIVE SortedByStart(_)
SortedByStart(s) ==
    IF s = <<>> THEN <<>>
    ELSE InsertByStart(SortedByStart(SubSeq(s, 1, Len(s) - 1)), s[Len(s)])

\* g.get('odds') and not g.get('odds', {}).get('no_odds', False)
WithOdds(s) ==
    LET Kept(g) == Truthy(g.odds) /\ g.odds # NoOddsMarker
    IN  SelectSeq(s, Kept)

\* the loop over the events of one date, lines 1020-1191; early_stop: the
\* break at line 1025 is taken
RECURSIVE scan_events(_, _, _, _)
scan_events(p, st, events, early_stop) ==
    IF events = <<>> THEN st
    ELSE IF /\ early_stop
            /\ ~p.show_favorite_teams_only
            /\ st.games_found >= p.max_games_per_league
    THEN st
    ELSE LET g == Head(events)
             favorite_teams == IF p.show_favorite_teams_only
                               THEN Range(p.favorite_teams) ELSE {}
             skipped == /\ p.show_favorite_teams_only
                        /\ g.home_team \notin favorite_teams
                        /\ g.away_team \notin favorite_teams
             counted ==
                [t \in DOMAIN st.team_games_found |->
                    IF /\ t \in {g.home_team, g.away_team}
                       /\ st.team_games_found[t] < p.games_per_favorite_team
                    THEN st.team_games_found[t] + 1
                    ELSE st.team_games_found[t]]
             next == IF skipped THEN st
                     ELSE [all_games |-> Append(st.all_games, g),
                           games_found |-> st.games_found + 1,
                           team_games_found |-> counted]
         IN  scan_events(p, next, Tail(events), early_stop)

\* the loop over the dates, lines 985-1199; early_stop: the breaks at lines
\* 987-991 and 1193-1194 are taken
RECURSIVE scan_dates(_, _, _, _, _)
scan_dates(p, st, games, dates, early_stop) ==
    IF dates = <<>> THEN st
    ELSE IF /\ early_stop
            /\ p.show_favorite_teams_only
            /\ p.favorite_teams # <<>>
            /\ \A t \in Range(p.favorite_teams) :
                  st.team_games_found[t] >= p.games_per_favorite_team
    THEN st
    ELSE IF /\ early_stop
            /\ ~p.show_favorite_teams_only
            /\ st.games_found >= p.max_games_per_league
    THEN st
    ELSE LET OnDate(g) == g.date = Head(dates)
         IN  scan_dates(p,
                        scan_events(p, st, SelectSeq(games, OnDate),
                                    early_stop),
                        games, Tail(dates), early_stop)

\* the counters before the scan, lines 961-969
ScanStart(p) ==
    [all_games |-> <<>>, games_found |-> 0,
     team_games_found |->
        [t \in (IF p.show_favorite_teams_only
                THEN Range(p.favorite_teams) ELSE {}) |-> 0]]

\* every date is scanned to its end
league_games_all_dates(p, games) ==
    scan_dates(p, ScanStart(p), games, DateList, FALSE).all_games

\* what _fetch_league_games returns
league_games_scanned(p, games) ==
    scan_dates(p, ScanStart(p), games, DateList, TRUE).all_games

\* lines 909-923: for each favorite team in turn its next games, a game
\* already taken for an earlier team is not taken again
RECURSIVE favorite_team_games(_, _, _, _)
favorite_team_games(p, all_games, teams, league_games) ==
    IF teams = <<>> THEN league_games
    ELSE LET team == Head(teams)
             Plays(g) == g.home_team = team \/ g.away_team = team
             sorted == SortedByStart(SelectSeq(all_games, Plays))
             team_games == IF p.show_odds_only THEN WithOdds(sorted)
                           ELSE sorted
             Unseen(taken, g) == \A k \in DOMAIN taken : taken[k].id # g.id
             RECURSIVE Taken(_, _)
             Taken(taken, rest) ==
                IF rest = <<>> THEN taken
                ELSE Taken(IF Unseen(taken, Head(rest))
                           THEN Append(taken, Head(rest)) ELSE taken,
                           Tail(rest))
         IN  favorite_team_games(
                p, all_games, Tail(teams),
                Taken(league_games,
                      First(team_games, p.games_per_favorite_team)))

\* a variant without the cap at max_games_per_league
upcoming_games_uncapped(p, all_games) ==
    IF p.show_favorite_teams_only
    THEN SortedByStart(favorite_team_games(p, all_games, p.favorite_teams,
                                           <<>>))
    ELSE SortedByStart(IF p.show_odds_only THEN WithOdds(all_games)
                       ELSE all_games)

\* _fetch_upcoming_games, lines 904-937: the games one league contributes
upcoming_games(p, all_games) ==
    IF p.show_favorite_teams_only
    THEN SortedByStart(
            First(favorite_team_games(p, all_games, p.favorite_teams, <<>>),
                  p.max_games_per_league))
    ELSE SortedByStart(
            First(SortedByStart(IF p.show_odds_only THEN WithOdds(all_games)
                                ELSE all_games),
                  p.max_games_per_league))

\* OddsTickerPlugin._fetch_upcoming_games with one league enabled
fetch_upcoming_games ==
    /\ last_ret' = [NoRet EXCEPT
                      !.call = plugin.scoreboards,
                      !.games = upcoming_games(
                                   plugin,
                                   league_games_scanned(plugin,
                                                        plugin.scoreboards))]
    /\ last_op' = "_fetch_upcoming_games"
    /\ UNCHANGED <<now, cfg, rvars, track, pvars>>

\* the league's settings: the two filters, favorite teams A and B or none,
\* and the two caps (the favorites and their cap are read in favorite-teams-
\* only mode alone)
LeagueSettings ==
    {c \in [f : BOOLEAN, o : BOOLEAN, t : {<<>>, <<"A", "B">>},
            n : {1, 2}, m : {1, 2}] :
        ~c.f => c.t = <<"A", "B">> /\ c.n = 1}

\* scoreboards: what the cache manager or ESPN gives for the dates scanned
LeaguePlugins ==
    {[NewPlugin(NoPluginConfig) EXCEPT
        !.show_favorite_teams_only = c.f,
        !.show_odds_only = c.o,
        !.favorite_teams = c.t,
        !.games_per_favorite_team = c.n,
        !.max_games_per_league = c.m,
        !.scoreboards = BoardGames(b)] :
            c \in LeagueSettings, b \in Boards}

InitLeague ==
    /\ now = T0
    /\ cfg \in PluginDisplays
    /\ scroll_position = 0
    /\ last_scroll_time = 0
    /\ ticker_image = None
    /\ total_scroll_width = 0
    /\ dynamic_duration = RInt(DefaultDynamicDuration)
    /\ end_reached_logged = FALSE
    /\ insufficient_time_warning_logged = FALSE
    /\ display_start_time = NoTime
    /\ last_op = "init"
    /\ last_ret = NoRet
    /\ track = Fresh
    /\ plugin \in LeaguePlugins
    /\ scroll_helper = NewScrollHelper
    /\ threads = NoThreads
    /\ game_filter = NoGameFilter

NextLeague == fetch_upcoming_games

SpecLeague == InitLeague /\ [][NextLeague]_vars

-----------------------------------------------------------------------------
(* GameFilter (game_filter.py) *)

\* at most this many games in the list given to filter_games
MaxFilterGames == 2

\* start_time of a game: empty or missing; a string fromisoformat rejects
\* (ValueError); a value that is not a string, such as the datetime the
\* plugin's games carry (TypeError); an ISO time before now; one within the
\* fetch window, sooner or later
StartTimes == {"", "ValueError", "TypeError", "past", "soon", "late"}

\* nfl: in enabled_leagues and enabled; nba: in enabled_leagues, enabled False
FilterLeagues == {"nfl", "nba"}

FilterGames ==
    [league : FilterLeagues, home_abbr : {"A", "C"}, away_abbr : {"D"},
     start_time : StartTimes]

\* the lists of games, each game with its place in the list as its id
FilterInputs ==
    {[k \in DOMAIN l |->
        [id |-> k, league |-> l[k].league, home_abbr |-> l[k].home_abbr,
         away_abbr |-> l[k].away_abbr, start_time |-> l[k].start_time]] :
            l \in SeqsUpTo(FilterGames, MaxFilterGames)}

\* GameFilter.__init__: the settings read from the config, and the favorite
\* teams of the one enabled league
GameFilters ==
    [show_favorite_teams_only : BOOLEAN, favorite_teams : {{}, {"A"}},
     max_games_per_league : {0, 1}, games : FilterInputs]

\* league in self.enabled_leagues and league_config.get('enabled', False)
LeagueShown(game) == game.league = "nfl"

\* current_time <= start_time <= future_cutoff
InWindow(game) == game.start_time \in {"soon", "late"}

\* _filter_by_league
filter_by_league(f, games) == SelectSeq(games, LeagueShown)

\* _filter_by_favorite_teams
filter_by_favorite_teams(f, games) ==
    LET Kept(game) ==
           \/ f.favorite_teams = {}
           \/ game.home_abbr \in f.favorite_teams
           \/ game.away_abbr \in f.favorite_teams
    IN  IF ~f.show_favorite_teams_only THEN games
        ELSE SelectSeq(games, Kept)

\* _filter_by_time: a game without start_time or with one that raises
\* ValueError is skipped; any other exception ends the loop and the games come
\* back unfiltered
filter_by_time(f, games) ==
    IF \E k \in DOMAIN games : games[k].start_time = "TypeError"
    THEN games
    ELSE SelectSeq(games, InWindow)

\* the place of a start time among the parsed times
StartRank(game) ==
    CASE game.start_time = "past" -> 0
      [] game.start_time = "soon" -> 1
      [] OTHER -> 2

RECURSIVE InsertByRank(_, _)
InsertByRank(sorted, game) ==
    IF sorted = <<>> THEN <<game>>
    ELSE IF StartRank(Head(sorted)) <= StartRank(game)
    THEN <<Head(sorted)>> \o InsertByRank(Tail(sorted), game)
    ELSE <<game>> \o sorted

RECURSIVE SortedByRank(_)
SortedByRank(games) ==
    IF games = <<>> THEN <<>>
    ELSE InsertByRank(SortedByRank(SubSeq(games, 1, Len(games) - 1)),
                      games[Len(games)])

\* _sort_games with sort_order 'soonest': sorted() with the parsed time as
\* key, datetime.max (which has no time zone) for an empty or rejected one.
\* A key that raises, or a comparison of datetime.max with a parsed time,
\* ends in the except branch and the list comes back as it was
sort_games(f, games) ==
    LET starts == {games[k].start_time : k \in DOMAIN games}
    IN  IF "TypeError" \in starts THEN games
        ELSE IF /\ starts \cap {"", "ValueError"} # {}
                /\ starts \cap {"past", "soon", "late"} # {}
        THEN games
        ELSE SortedByRank(games)

\* _limit_games_per_league
RECURSIVE limit_games_per_league(_, _, _)
limit_games_per_league(f, games, limited_games) ==
    IF f.max_games_per_league <= 0 THEN games
    ELSE IF games = <<>> THEN limited_games
    ELSE LET game == Head(games)
             SameLeague(g) == g.league = game.league
             current_count == Len(SelectSeq(limited_games, SameLeague))
         IN  limit_games_per_league(
                f, Tail(games),
                IF current_count < f.max_games_per_league
                THEN Append(limited_games, game) ELSE limited_games)

\* GameFilter.filter_games(games)
filter_games_from(f, games) ==
    IF games = <<>> THEN <<>>
    ELSE limit_games_per_league(
            f,
            sort_games(f,
               filter_by_time(f,
                  filter_by_favorite_teams(f, filter_by_league(f, games)))),
            <<>>)

\* GameFilter.should_show_game(game)
should_show_game(f, game) ==
    IF ~LeagueShown(game) THEN FALSE
    ELSE IF /\ f.show_favorite_teams_only
            /\ f.favorite_teams # {}
            /\ game.home_abbr \notin f.favorite_teams
            /\ game.away_abbr \notin f.favorite_teams
    THEN FALSE
    ELSE IF game.start_time = "" THEN TRUE
    ELSE IF game.start_time \in {"ValueError", "TypeError"} THEN FALSE
    ELSE InWindow(game)

filter_games ==
    /\ last_op' = "filter_games"
    /\ last_ret' = [NoRet EXCEPT
                      !.call = game_filter.games,
                      !.games = filter_games_from(game_filter,
                                                  game_filter.games)]
    /\ UNCHANGED <<now, cfg, rvars, track, pvars>>

InitFilter ==
    /\ now = T0
    /\ cfg \in PluginDisplays
    /\ scroll_position = 0
    /\ last_scroll_time = 0
    /\ ticker_image = None
    /\ total_scroll_width = 0
    /\ dynamic_duration = RInt(DefaultDynamicDuration)
    /\ end_reached_logged = FALSE
    /\ insufficient_time_warning_logged = FALSE
    /\ display_start_time = NoTime
    /\ last_op = "init"
    /\ last_ret = NoRet
    /\ track = Fresh
    /\ plugin = NewPlugin(NoPluginConfig)
    /\ scroll_helper = NewScrollHelper
    /\ threads = NoThreads
    /\ game_filter \in GameFilters

NextFilter == filter_games

SpecFilter == InitFilter /\ [][NextFilter]_vars

-----------------------------------------------------------------------------
(* Properties *)

\* a render call on the stored strip was the step just taken
RenderStep ==
    /\ last_op' = "render_scrolling_ticker"
    /\ now' = now
    /\ ticker_image.kind = "strip"
    /\ last_ret'.arg = ticker_image

\* the clamped maximum of single-pass mode: strip width minus display width
MaxPosition == ticker_image.width - matrix_width

\* C1: single-pass termination.  With loop = False, once scroll_position is at
\* its clamped maximum with the end-reached flag set, a render tick leaves
\* scroll_position at that maximum and the flag set, whatever time has passed.
C1_SinglePassTermination ==
    [][(~cfg.loop /\ RenderStep /\ scroll_position = MaxPosition
            /\ end_reached_logged)
        => (scroll_position' = scroll_position /\ end_reached_logged')]_vars

\* C2: duration clamp.  With dynamic duration enabled, the duration that
\* get_display_duration returns lies in [min_duration, max_duration], for
\* every content width >= 0, nothing measured yet included.
C2_DurationClamp ==
    (last_op = "get_display_duration" /\ cfg.dynamic_duration_enabled)
        => /\ RLe(RInt(cfg.min_duration), last_ret.dur)
           /\ RLe(last_ret.dur, RInt(cfg.max_duration))

C4_LoopPeriodic ==
    [][(cfg.loop /\ RenderStep /\ "scroll" \in last_ret'.log
            /\ "transition_reset" \notin last_ret'.log)
        => scroll_position' =
              (scroll_position + cfg.scroll_speed) % ticker_image.width]_vars

\* a reset_scroll call was the step just taken
ResetStep == last_op' = "reset_scroll" /\ now' = now

\* C5: idempotent reset.  reset_scroll sets scroll_position to 0, clears the
\* end-reached and insufficient-time flags and the last-tick time; called
\* again on the state a reset left, it changes nothing of the renderer.
C5_IdempotentReset ==
    [][ResetStep
        => /\ scroll_position' = 0
           /\ ~end_reached_logged'
           /\ ~insufficient_time_warning_logged'
           /\ last_scroll_time' = 0
           /\ <<ticker_image, total_scroll_width, dynamic_duration,
                display_start_time>>' =
              <<ticker_image, total_scroll_width, dynamic_duration,
                display_start_time>>
           /\ (last_op = "reset_scroll" => rvars' = rvars)]_vars

\* a reset that had a scrolled or ended state to rewind
C5_Witness ==
    /\ last_op = "reset_scroll"
    /\ "rewound" \in last_ret.log
    /\ scroll_position = 0
    /\ last_scroll_time = 0
    /\ ticker_image.kind = "strip"
    /\ display_start_time # NoTime

\* a render call on a strip, without loop reset, end clamp or
\* insufficient-time reset, was the step just taken
PlainRenderStep ==
    /\ RenderStep
    /\ ~Moved(last_ret'.log)

C7_NoFailureEscapes ==
    (last_op = "render_scrolling_ticker" /\ last_ret.arg # None)
        => /\ ~last_ret.raised
           /\ last_ret.frame.width = matrix_width
           /\ last_ret.frame.height = matrix_height

\* C8: empty content is not an error.  With an empty list create_ticker_image
\* raises nothing and returns a placeholder of exactly display_width x
\* display_height; display() of an enabled plugin that still has no games
\* raises nothing and ends with the display-sized fallback frame shown.
C8_EmptyContentNotAnError ==
    /\ (last_op = "create_ticker_image" /\ last_ret.arg.tiles = <<>>
          /\ last_ret.arg # None)
          => /\ ~last_ret.raised
             /\ last_ret.img.kind = "no_data"
             /\ last_ret.img.width = matrix_width
             /\ last_ret.img.height = matrix_height
    /\ (last_op = "display" /\ plugin.is_enabled /\ plugin.games_data = <<>>)
          => /\ ~last_ret.raised
             /\ last_ret.frame.kind = "fallback"
             /\ last_ret.frame.width = matrix_width
             /\ last_ret.frame.height = matrix_height

\* display() tried an update, the fetch found no games, the fallback is shown
C8_Witness ==
    /\ last_op = "display"
    /\ plugin.is_enabled
    /\ plugin.games_data = <<>>
    /\ "fetch" \in {last_ret.calls[i] : i \in DOMAIN last_ret.calls}
    /\ plugin.last_update = now
    /\ last_ret.frame.kind = "fallback"
    /\ last_ret.frame.width = matrix_width

\* an is_cycle_complete call was the step just taken
IsCycleCompleteStep == last_op' = "is_cycle_complete" /\ now' = now

\* C9: is_cycle_complete returns True whenever the plugin is disabled or
\* dynamic duration is off; otherwise True exactly when (a display start time
\* is set, dynamic_duration > 0 and the time since display start is at least
\* dynamic_duration) or (loop is False and the scroll is complete); so in
\* loop mode before any display() call it returns False.
C9_CycleComplete ==
    [][IsCycleCompleteStep
        => /\ last_ret'.ok =
                 (\/ ~plugin.is_enabled
                  \/ ~plugin.dynamic_duration_enabled
                  \/ /\ plugin.display_start_time # NoTime
                     /\ plugin.dynamic_duration > 0
                     /\ now - plugin.display_start_time
                           >= plugin.dynamic_duration
                  \/ ~plugin.loop /\ scroll_helper.scroll_complete)
           /\ (/\ plugin.is_enabled
               /\ plugin.dynamic_duration_enabled
               /\ plugin.loop
               /\ plugin.display_start_time = NoTime) => ~last_ret'.ok
           /\ ~last_ret'.raised
           /\ pvars' = pvars]_vars

\* loop mode, a session started, the measured duration has passed: True
C9_Witness ==
    /\ last_op = "is_cycle_complete"
    /\ plugin.is_enabled
    /\ plugin.dynamic_duration_enabled
    /\ plugin.loop
    /\ plugin.display_start_time # NoTime
    /\ plugin.dynamic_duration = 1
    /\ now - plugin.display_start_time >= 1
    /\ last_ret.ok

\* a get_dynamic_duration call was the step just taken
GetDynamicDurationStep == last_op' = "get_dynamic_duration" /\ now' = now

\* C10: lazy duration refresh.  get_dynamic_duration never raises and returns
\* the stored duration; with total_scroll_width = 0 and the plugin enabled it
\* fetches exactly once, and after a fetch that did not fail resets the scroll
\* and rebuilds the image once; otherwise it fetches nothing and changes
\* nothing.
C10_LazyRefresh ==
    [][GetDynamicDurationStep
        => /\ ~last_ret'.raised
           /\ last_ret'.dur = RInt(plugin'.dynamic_duration)
           /\ IF plugin.total_scroll_width = 0 /\ plugin.is_enabled
              THEN \/ /\ last_ret'.calls = <<"fetch">>
                      /\ pvars' = pvars
                   \/ last_ret'.calls =
                         <<"fetch", "reset_scroll", "create_ticker_image">>
              ELSE /\ last_ret'.calls = <<>>
                   /\ pvars' = pvars]_vars

\* the forced update fetched a game, rebuilt the image and measured it
C10_Witness ==
    /\ last_op = "get_dynamic_duration"
    /\ last_ret.calls = <<"fetch", "reset_scroll", "create_ticker_image">>
    /\ plugin.games_data # <<>>
    /\ plugin.total_scroll_width > 0
    /\ plugin.ticker_image # None
    /\ last_ret.dur = RInt(1)

C20_DurationFormula ==
    (ticker_image.kind = "strip" /\ cfg.dynamic_duration_enabled
        /\ total_scroll_width > 0)
        => LET pps == cfg.scroll_pixels_per_second
               buf == cfg.duration_buffer
               total == Rat(total_scroll_width * pps.d * (buf.n + buf.d),
                            pps.n * buf.d)
               clamped == IF RLt(total, RInt(cfg.min_duration))
                          THEN RInt(cfg.min_duration)
                          ELSE IF RLt(RInt(cfg.max_duration), total)
                          THEN RInt(cfg.max_duration)
                          ELSE total
           IN  /\ dynamic_duration = clamped
               /\ (/\ pps = Rat(542, 10)
                   /\ total_scroll_width = 198
                   /\ buf = Rat(1, 10)
                   /\ cfg.min_duration = 30
                   /\ cfg.max_duration = 300) => dynamic_duration = RInt(30)

\* the scenario: one 174 px tile and its gap make 198 px at 54.2 px/s
C20_Witness ==
    /\ last_op = "create_ticker_image"
    /\ ticker_image.kind = "strip"
    /\ cfg.dynamic_duration_enabled
    /\ cfg.scroll_pixels_per_second = Rat(542, 10)
    /\ cfg.min_duration = 30
    /\ cfg.max_duration = 300
    /\ total_scroll_width = 198
    /\ dynamic_duration = RInt(30)

\* C15: the end-reached notification is emitted once.  In single-pass mode a
\* render tick logs the transition and tells the host that scrolling stopped
\* when the end is first reached in a session, and a tick that finds the
\* transition already logged in this session neither logs it nor tells the
\* host again.
C15_EndReachedOnce ==
    [][(~cfg.loop /\ RenderStep)
        => IF end_reached_logged
           THEN last_ret'.log \cap {"end_reached_logged",
                                    "set_scrolling_state_false"} = {}
           ELSE ("end_clamp" \in last_ret'.log)
                   => {"end_reached_logged", "set_scrolling_state_false"}
                         \subseteq last_ret'.log]_vars

\* C16: loop wrap.  In loop mode, as soon as a render tick brings the position
\* to content_width plus one padding region or beyond (one full cycle scrolled
\* past), the position wraps by subtracting that cycle length, keeping the
\* remainder; below it the position is not wrapped; and the end-reached flag
\* is never set.
C16_LoopWrap ==
    [][(cfg.loop /\ RenderStep /\ "transition_reset" \notin last_ret'.log)
        => LET cycle == total_scroll_width + matrix_width
               moved == IF "scroll" \in last_ret'.log
                        THEN scroll_position + cfg.scroll_speed
                        ELSE scroll_position
           IN  /\ scroll_position' =
                     IF moved >= cycle THEN moved - cycle ELSE moved
               /\ ~end_reached_logged']_vars


\* a start_display_session(force_clear = False) call on a started session
SessionCheckStep ==
    /\ last_op' = "start_display_session"
    /\ now' = now
    /\ "force_clear" \notin last_ret'.log
    /\ display_start_time # NoTime

\* C18: stale-session reset.  A session started without force_clear whose
\* display-start timestamp is older than 2 x the current dynamic duration gets
\* display-start = now, scroll position 0 and the end-reached and
\* insufficient-time flags cleared; when the elapsed time does not exceed
\* 2 x dynamic duration the session check changes none of the four.
C18_StaleSessionReset ==
    [][SessionCheckStep
        => IF (now - display_start_time) * dynamic_duration.d
                > 2 * dynamic_duration.n * cfg.ticks_per_second
           THEN /\ display_start_time' = now
                /\ scroll_position' = 0
                /\ ~end_reached_logged'
                /\ ~insufficient_time_warning_logged'
           ELSE <<display_start_time, scroll_position, end_reached_logged,
                  insufficient_time_warning_logged>>' =
                <<display_start_time, scroll_position, end_reached_logged,
                  insufficient_time_warning_logged>>]_vars

\* a stale session that had scrolled was reset by the session check alone
C18_Witness ==
    /\ last_op = "start_display_session"
    /\ last_ret.log = {"session_reset", "too_old"}
    /\ display_start_time = now
    /\ now > T0
    /\ scroll_position = 0
    /\ ticker_image.kind = "strip"


\* an update() or display() call in which _perform_update fetched new games
RefreshStep ==
    /\ last_op' \in {"update", "display"}
    /\ now' = now
    /\ plugin.last_update < now
    /\ plugin'.last_update = now

\* C17: reset on refresh.  Every data refresh, whether update() or display()
\* triggered it, resets the scroll state after the fetch: reset_scroll is
\* called (position 0, scroll not complete) and the end-reached flag is
\* cleared; a refresh by update() leaves the call at position 0.
C17_ResetOnRefresh ==
    [][RefreshStep
        => /\ \E i, j \in DOMAIN last_ret'.calls :
                /\ i < j
                /\ last_ret'.calls[i] = "fetch"
                /\ last_ret'.calls[j] = "reset_scroll"
           /\ (last_op' = "update"
                 => /\ scroll_helper'.scroll_position = 0
                    /\ ~scroll_helper'.scroll_complete
                    /\ ~plugin'.end_reached_logged)]_vars


\* a worker thread that display() had stopped waiting for ran to its end
AbandonedWorkerStep ==
    /\ last_op' \in {"update_thread", "image_thread"}
    /\ threads' # threads

\* C12: state ownership.  The scroll position, the ticker strip image and
\* games_data are written by the rendering call path only: a worker thread
\* started by display() never writes them, a worker that display() has timed
\* out on and abandoned included.
C12_StateOwnership ==
    [][AbandonedWorkerStep
        => /\ plugin'.games_data = plugin.games_data
           /\ plugin'.ticker_image = plugin.ticker_image
           /\ scroll_helper'.scroll_position = scroll_helper.scroll_position
           /\ scroll_helper'.cached_image = scroll_helper.cached_image]_vars


\* C13: frame ordering.  Frames reach the display strictly in the order of
\* the render calls that produced them, and a render call starts its push
\* only when no earlier push is still in progress, an earlier push that
\* exceeded its 1-second timeout included.
C13_FrameOrdering ==
    [][/\ (threads'.shown # threads.shown => threads'.shown > threads.shown)
       /\ (threads'.frames # threads.frames => threads.push = {})]_vars


\* a get_odds call was the step just taken
GetOddsStep == last_op' = "get_odds"

\* C11: get_odds raises ValueError when sport or league is None, and every
\* other call that returns gives a dictionary of odds data or None, whether
\* the answer comes from the network or from the cache.
C11_GetOddsResult ==
    [][GetOddsStep
        => IF NoName \in {last_ret'.call[1], last_ret'.call[2]}
           THEN last_ret'.raised /\ "ValueError" \in last_ret'.log
           ELSE ~last_ret'.raised
                   => last_ret'.odds \in {OddsData, NoOdds}]_vars


\* C14: timeout guard.  A caller whose worker does not answer in time stops
\* waiting, starts no second worker for the same job in the same call and goes
\* on with what it has: _fetch_league_games runs one odds worker per event and
\* includes every event's game, with odds None when the worker timed out or
\* failed; display() leaves at most one worker running for each of its two
\* jobs, and every display() of an enabled plugin whose data is still empty
\* or whose image is still missing shows the fallback frame and returns.
C14_TimeoutGuard ==
    [][/\ (last_op' = "fetch_league_games"
             => LET events == last_ret'.call
                    games == last_ret'.games
                    workers == last_ret'.calls
                IN  /\ Len(games) = Len(events)
                    /\ Len(workers) = Len(events)
                    /\ \A i \in DOMAIN events :
                          /\ games[i].id = events[i].id
                          /\ (workers[i] \in {"timed_out", "failed"}
                                => games[i].odds = NoOdds))
       /\ (last_op' = "display"
             => /\ ~last_ret'.raised
                /\ threads'.update <= threads.update + 1
                /\ threads'.update + threads'.image
                      <= threads.update + threads.image + 2
                /\ (threads'.update > threads.update
                      => last_ret'.log = {"no_games"})
                /\ ((plugin.is_enabled
                       /\ (plugin'.games_data = <<>>
                             \/ plugin'.ticker_image = None))
                      => last_ret'.frame = Shown(fallback_image)))]_vars

\* display() gave up on its update worker and showed the fallback while an
\* odds worker that the league fetch gave up on is still running
C14_Witness ==
    /\ last_op = "display"
    /\ threads.update > 0
    /\ threads.odds # {}
    /\ plugin.games_data = <<>>
    /\ last_ret.log = {"no_games"}
    /\ last_ret.frame = Shown(fallback_image)


\* C21: speed guard.  With dynamic duration enabled, a content width > 0 and
\* a scroll_pixels_per_second of zero or less, building the strip raises
\* nothing and leaves dynamic_duration equal to min_duration.
C21_SpeedGuard ==
    /\ last_op = "create_ticker_image" => ~last_ret.raised
    /\ (/\ ticker_image.kind = "strip"
        /\ cfg.dynamic_duration_enabled
        /\ total_scroll_width > 0
        /\ cfg.scroll_pixels_per_second.n <= 0)
          => dynamic_duration = RInt(cfg.min_duration)

\* a strip was measured at a speed of zero and the duration fell back to a
\* min_duration that differs from the initial 60 s
C21_Witness ==
    /\ last_op = "create_ticker_image"
    /\ ticker_image.kind = "strip"
    /\ cfg.dynamic_duration_enabled
    /\ total_scroll_width > 0
    /\ cfg.scroll_pixels_per_second = RInt(0)
    /\ cfg.min_duration = 30
    /\ dynamic_duration = RInt(30)


\* a _perform_update call that fetched new games
PerformUpdateStep ==
    /\ last_op' = "_perform_update"
    /\ plugin.last_update < now
    /\ plugin'.last_update = now

C23_PositionBounds ==
    [][RenderStep
        => /\ scroll_position' >= 0
           /\ cfg.loop => scroll_position' < ticker_image.width
           /\ ~cfg.loop
                => /\ scroll_position' + matrix_width <= ticker_image.width
                   /\ last_ret'.ok
                        => \A x \in 1..matrix_width :
                              last_ret'.frame.cols[x] =
                                Column(ticker_image, scroll_position' + (x - 1))]_vars

\* a single-pass render that scrolled onto the end of the strip and showed
\* its last display-width columns
C23_Witness ==
    /\ last_op = "render_scrolling_ticker"
    /\ ~cfg.loop
    /\ ticker_image.kind = "strip"
    /\ last_ret.arg = ticker_image
    /\ last_ret.ok
    /\ {"scroll", "end_clamp"} \subseteq last_ret.log
    /\ scroll_position + matrix_width = ticker_image.width


\* C24: render needs no prior session.  For any image and any reachable
\* renderer state, a freshly constructed renderer on which
\* start_display_session was never called included, render_scrolling_ticker
\* returns True and hands a display-sized frame to the display manager; no
\* call moves scroll_position without delivering a frame.
C24_RenderNeedsNoSession ==
    [][(/\ last_op' = "render_scrolling_ticker"
        /\ now' = now
        /\ last_ret'.arg # None)
        => /\ last_ret'.ok
           /\ last_ret'.frame # NoFrame
           /\ last_ret'.frame.width = matrix_width
           /\ scroll_position' # scroll_position
                => last_ret'.frame # NoFrame]_vars


\* C25: at most one worker in flight.  Across any sequence of display() calls,
\* an update worker or an image worker is never started while a worker that
\* an earlier display() call started is still running.
C25_OneWorkerInFlight ==
    [][(/\ last_op' = "display"
        /\ now' = now
        /\ \E k \in DOMAIN last_ret'.calls :
              last_ret'.calls[k] \in {"update_thread", "image_thread"})
        => threads.update + threads.image = 0]_vars


\* C26: fetch throttle.  Across the host's calls of update(), display() and
\* get_dynamic_duration() (which get_display_duration() and get_info() call),
\* a call starts a game-data fetch only when at least the current update
\* interval, which is never shorter than the live interval, has passed since
\* the fetch that set last_update.
C26_FetchThrottle ==
    [][(/\ last_op' \in {"update", "display", "get_dynamic_duration"}
        /\ now' = now
        /\ \E k \in DOMAIN last_ret'.calls : last_ret'.calls[k] = "fetch")
        => now - plugin.last_update >= plugin.live_game_update_interval]_vars


\* C27: early stop is result-preserving.  For every scoreboard content and
\* every setting of show_favorite_teams_only and show_odds_only, what
\* _fetch_upcoming_games returns equals the result of scanning all the dates
\* and then applying the same odds filter, sort and caps.
C27_EarlyStopPreserves ==
    last_op = "_fetch_upcoming_games"
        => last_ret.games =
              upcoming_games(plugin,
                             league_games_all_dates(plugin, last_ret.call))


\* C28: per-league selection.  The games a league contributes number at most
\* max_games_per_league; in favorite-teams-only mode no game id appears twice,
\* every game has a favorite team as home or away, and every game is among the
\* games_per_favorite_team soonest of the collected games (with odds, under
\* show_odds_only) of some favorite team, so that a team contributes at most
\* that many; with show_odds_only every game has odds that are not the
\* no_odds sentinel.
C28_PerLeagueSelection ==
    last_op = "_fetch_upcoming_games"
        => LET games == last_ret.games
               all_games == league_games_scanned(plugin, last_ret.call)
               favorite_teams == Range(plugin.favorite_teams)
               Soonest(team) ==
                  LET Plays(g) == g.home_team = team \/ g.away_team = team
                      sorted == SortedByStart(SelectSeq(all_games, Plays))
                  IN  Range(First(IF plugin.show_odds_only
                                  THEN WithOdds(sorted) ELSE sorted,
                                  plugin.games_per_favorite_team))
           IN  /\ Len(games) <= plugin.max_games_per_league
               /\ Range(games) \subseteq Range(all_games)
               /\ plugin.show_favorite_teams_only
                    => /\ \A i, j \in DOMAIN games :
                             i # j => games[i].id # games[j].id
                       /\ \A k \in DOMAIN games :
                             \/ games[k].home_team \in favorite_teams
                             \/ games[k].away_team \in favorite_teams
                       /\ \A k \in DOMAIN games :
                             \E team \in favorite_teams :
                                games[k] \in Soonest(team)
                       /\ Len(games) <=
                             plugin.games_per_favorite_team
                                * Len(plugin.favorite_teams)
               /\ plugin.show_odds_only
                    => \A k \in DOMAIN games :
                          /\ games[k].odds # NoOdds
                          /\ games[k].odds # NoOddsMarker

\* favorites A and B, one game each, odds only: A's soonest game with odds and
\* B's, two different games, were contributed
C28_Witness ==
    /\ last_op = "_fetch_upcoming_games"
    /\ plugin.show_favorite_teams_only
    /\ plugin.show_odds_only
    /\ plugin.games_per_favorite_team = 1
    /\ Len(last_ret.games) = 2
    /\ last_ret.games[1].id # last_ret.games[2].id


\* C29: GameFilter agreement.  With no per-league limit, filter_games keeps
\* exactly the input games for which should_show_game returns True, games
\* with a missing or empty start_time included.
C29_FilterAgreement ==
    (last_op = "filter_games" /\ game_filter.max_games_per_league <= 0)
        => Range(last_ret.games) =
              {game \in Range(last_ret.call) :
                  should_show_game(game_filter, game)}

====
